---- MODULE Spec2Model ----
(***************************************************************************)
(* Model of app.py: the "Quantum Hamming (Steane) Code" Streamlit demo.    *)
(*                                                                         *)
(* A circuit is the ordered list of instructions appended to it.  Its      *)
(* meaning is computed by Simulate: the only Hadamard of the program acts  *)
(* on |0...0>, every other gate is a CNOT, a Pauli or a measurement, so    *)
(* the register is always an equal-weight superposition of basis states    *)
(* ("branches"), each with a phase i^k.  One shot of the noiseless backend *)
(* samples one branch and reads its classical bits.                        *)
(*                                                                         *)
(* Spec   : the script as Streamlit runs it (widgets, button, the          *)
(*          execution block line by line).                                 *)
(* FnSpec : the functions of the file called on their own, with arguments  *)
(*          the widgets would never produce.                               *)
(***************************************************************************)
EXTENDS Integers, Sequences, FiniteSets, TLC

VARIABLES
    pc,           \* position of the script: idle, encoded, injected, extracted, executed, corrected, done; fn under FnSpec
    error_type,   \* sidebar selectbox "Error Type"
    error_qubit,  \* sidebar selectbox "Error Qubit (0-6)"
    shots,        \* sidebar slider "Shots"
    qc,           \* the circuit: sequence of instructions
    table,        \* the module-level dict SYNDROME_TABLE
    counts,       \* result.get_counts(): ordered sequence of [key, n]
    syndrome,     \* selected syndrome string, "" before selection
    corrected,    \* <<>> for None, <<q>> for qubit q
    message,      \* the st.success text of the correction step, <<>> before it
    submitted,    \* the circuit handed to backend.run
    executions,   \* number of backend.run calls of the current run
    runs,         \* number of button presses so far
    call,         \* FnSpec: the call just made, with its arguments
    raised        \* FnSpec: name of the exception the call raised, "" if none

vars == <<pc, error_type, error_qubit, shots, qc, table, counts, syndrome,
          corrected, message, submitted, executions, runs, call, raised>>

----------------------------------------------------------------------------
(* Sizes and widget ranges *)

NumQubits == 10
NumClbits == 3
NumData == 7
MinShots == 256
MaxShots == 2048
DefaultShots == 1024

\* bounds of the model
MaxRuns == 2
MaxEntries == 3
MaxCount == 2

ErrorTypes == {"None", "X", "Z", "Y"}
ErrorQubits == 0 .. (NumData - 1)
\* the slider takes every value of MinShots..MaxShots; three of them are explored
ShotsChoices == {MinShots, DefaultShots, MaxShots}

----------------------------------------------------------------------------
(* Circuit construction: each qc.<gate>(...) appends one instruction *)

Gate(name, qubits, clbits) == [name |-> name, qubits |-> qubits, clbits |-> clbits]

QuantumCircuit == <<>>

h(c, q) == Append(c, Gate("h", <<q>>, <<>>))
cx(c, ctl, tgt) == Append(c, Gate("cx", <<ctl, tgt>>, <<>>))
x(c, q) == Append(c, Gate("x", <<q>>, <<>>))
z(c, q) == Append(c, Gate("z", <<q>>, <<>>))
y(c, q) == Append(c, Gate("y", <<q>>, <<>>))
measure(c, q, b) == Append(c, Gate("measure", <<q>>, <<b>>))

steane_encode_swapped ==
    LET c0 == h(QuantumCircuit, 0)
        c1 == cx(c0, 0, 1)
        c2 == cx(c1, 0, 2)
        c3 == cx(c2, 2, 3)
        c4 == cx(c3, 1, 3)
        c5 == cx(c4, 1, 4)
        c6 == cx(c5, 2, 5)
    IN  cx(c6, 3, 6)

steane_encode_short ==
    LET c0 == h(QuantumCircuit, 0)
        c1 == cx(c0, 0, 1)
        c2 == cx(c1, 0, 2)
        c3 == cx(c2, 1, 3)
        c5 == cx(c3, 1, 4)
        c6 == cx(c5, 2, 5)
    IN  cx(c6, 3, 6)

steane_encode ==
    LET c0 == h(QuantumCircuit, 0)
        c1 == cx(c0, 0, 1)
        c2 == cx(c1, 0, 2)
        c3 == cx(c2, 1, 3)
        c4 == cx(c3, 2, 3)
        c5 == cx(c4, 1, 4)
        c6 == cx(c5, 2, 5)
    IN  cx(c6, 3, 6)

inject_error_clamped(c, qubit, error) ==
    LET q == IF qubit > NumData - 1 THEN NumData - 1 ELSE qubit
    IN  IF error = "X" THEN x(c, q)
        ELSE IF error = "Z" THEN z(c, q)
        ELSE IF error = "Y" THEN y(c, q)
        ELSE c

inject_error(c, qubit, error) ==
    IF error = "X" THEN x(c, qubit)
    ELSE IF error = "Z" THEN z(c, qubit)
    ELSE IF error = "Y" THEN y(c, qubit)
    ELSE c

syndrome_measurement_miswired(c) ==
    LET a1 == cx(c, 0, 7)
        a2 == cx(a1, 1, 7)
        a3 == cx(a2, 2, 7)
        b1 == cx(a3, 0, 8)
        b2 == cx(b1, 2, 8)
        b3 == cx(b2, 3, 8)
        d1 == cx(b3, 1, 9)
        d2 == cx(d1, 2, 9)
        d3 == cx(d2, 3, 9)
        m1 == measure(d3, 7, 0)
        m2 == measure(m1, 8, 1)
    IN  measure(m2, 9, 2)

syndrome_measurement(c) ==
    LET a1 == cx(c, 0, 7)
        a2 == cx(a1, 1, 7)
        a3 == cx(a2, 3, 7)
        b1 == cx(a3, 0, 8)
        b2 == cx(b1, 2, 8)
        b3 == cx(b2, 3, 8)
        d1 == cx(b3, 1, 9)
        d2 == cx(d1, 2, 9)
        d3 == cx(d2, 3, 9)
        m1 == measure(d3, 7, 0)
        m2 == measure(m1, 8, 1)
    IN  measure(m2, 9, 2)

SYNDROME_TABLE_dup ==
    ("001" :> 0) @@ ("010" :> 1) @@ ("011" :> 2) @@ ("100" :> 3) @@
    ("101" :> 4) @@ ("110" :> 5) @@ ("111" :> 5)

SYNDROME_TABLE ==
    ("001" :> 0) @@ ("010" :> 1) @@ ("011" :> 2) @@ ("100" :> 3) @@
    ("101" :> 4) @@ ("110" :> 5) @@ ("111" :> 6)

\* .get(syndrome, 0) in place of the membership test
apply_correction_default(c, s, et) ==
    LET q == IF s \in DOMAIN table THEN table[s] ELSE 0
    IN  [qc  |-> IF et = "X" THEN x(c, q)
                 ELSE IF et = "Z" THEN z(c, q)
                 ELSE IF et = "Y" THEN y(c, q)
                 ELSE c,
         ret |-> <<q>>]

\* the correction gate does not follow error_type
apply_correction_always_x(c, s, et) ==
    IF s \in DOMAIN table
    THEN [qc |-> x(c, table[s]), ret |-> <<table[s]>>]
    ELSE [qc |-> c, ret |-> <<>>]

\* returns the circuit after the call and the returned value (<<>> is None)
apply_correction(c, s, et) ==
    IF s \in DOMAIN table
    THEN LET q == table[s]
         IN  [qc  |-> IF et = "X" THEN x(c, q)
                      ELSE IF et = "Z" THEN z(c, q)
                      ELSE IF et = "Y" THEN y(c, q)
                      ELSE c,
              ret |-> <<q>>]
    ELSE [qc |-> c, ret |-> <<>>]

----------------------------------------------------------------------------
(* Noiseless simulation of a circuit *)

Xor(a, b) == (a + b) % 2

\* |0...0>, classical register cleared, amplitude i^0
ZeroState ==
    << [bits  |-> [q \in 0 .. (NumQubits - 1) |-> 0],
        cl    |-> [b \in 0 .. (NumClbits - 1) |-> 0],
        phase |-> 0] >>

\* a gate other than H acts on each branch by itself
GateOnBranch(b, g) ==
    CASE g.name = "cx" ->
            [b EXCEPT !.bits[g.qubits[2]] = Xor(b.bits[g.qubits[2]], b.bits[g.qubits[1]])]
      [] g.name = "x" ->
            [b EXCEPT !.bits[g.qubits[1]] = 1 - b.bits[g.qubits[1]]]
      [] g.name = "z" ->
            [b EXCEPT !.phase = (b.phase + 2 * b.bits[g.qubits[1]]) % 4]
      [] g.name = "y" ->
            \* Y|0> = i|1>, Y|1> = -i|0>
            [b EXCEPT !.bits[g.qubits[1]] = 1 - b.bits[g.qubits[1]],
                      !.phase = (b.phase + 1 + 2 * b.bits[g.qubits[1]]) % 4]
      [] g.name = "measure" ->
            [b EXCEPT !.cl[g.clbits[1]] = b.bits[g.qubits[1]]]

\* H|0> = (|0> + |1>)/sqrt2, H|1> = (|0> - |1>)/sqrt2: every branch splits in
\* two of equal weight.  Exact as long as no two resulting branches coincide,
\* which holds for the one Hadamard of the program, applied to |0...0>.
RECURSIVE ApplyH(_, _)
ApplyH(st, q) ==
    IF st = <<>> THEN <<>>
    ELSE LET b == Head(st)
         IN  << [b EXCEPT !.bits[q] = 0],
                [b EXCEPT !.bits[q] = 1, !.phase = (b.phase + 2 * b.bits[q]) % 4] >>
             \o ApplyH(Tail(st), q)

RECURSIVE OnEachBranch(_, _)
OnEachBranch(st, g) ==
    IF st = <<>> THEN <<>>
    ELSE <<GateOnBranch(Head(st), g)>> \o OnEachBranch(Tail(st), g)

ApplyGate(st, g) ==
    IF g.name = "h" THEN ApplyH(st, g.qubits[1]) ELSE OnEachBranch(st, g)

RECURSIVE RunFrom(_, _)
RunFrom(c, st) ==
    IF c = <<>> THEN st ELSE RunFrom(Tail(c), ApplyGate(st, Head(c)))

Simulate(c) == RunFrom(c, ZeroState)

\* a counts key: the classical register written with bit 0 rightmost
BitStrings == <<"000", "001", "010", "011", "100", "101", "110", "111">>

Format(cl) == BitStrings[4 * cl[2] + 2 * cl[1] + cl[0] + 1]

\* how many of the shots fall on each branch (one or two branches)
Allocations(n, total) ==
    IF n = 1 THEN { <<total>> } ELSE { <<k, total - k>> : k \in 0 .. total }

RECURSIVE TallyFrom(_, _, _, _)
TallyFrom(st, alloc, key, i) ==
    IF i > Len(st) THEN 0
    ELSE (IF Format(st[i].cl) = key THEN alloc[i] ELSE 0) + TallyFrom(st, alloc, key, i + 1)

\* every ordering of a set of keys: the dict's iteration order is the backend's
Orderings(keys) ==
    { o \in [1 .. Cardinality(keys) -> keys] :
        \A i, j \in 1 .. Cardinality(keys) : i # j => o[i] # o[j] }

\* backend.run(qc, shots=n).result().get_counts(): all the outcome maps the
\* noiseless sampler can return
Backend(c, n) ==
    LET st == Simulate(c)
    IN  UNION { LET keys == { k \in { Format(st[i].cl) : i \in 1 .. Len(st) } :
                                  TallyFrom(st, alloc, k, 1) > 0 }
                IN  { [i \in 1 .. Len(o) |-> [key |-> o[i], n |-> TallyFrom(st, alloc, o[i], 1)]] :
                        o \in Orderings(keys) }
              : alloc \in Allocations(Len(st), n) }

\* max(counts, key=counts.get): scan in iteration order, keep the first largest
RECURSIVE ScanLast(_, _, _)
ScanLast(m, i, best) ==
    IF i > Len(m) THEN best
    ELSE ScanLast(m, i + 1, IF m[i].n >= m[best].n THEN i ELSE best)

RECURSIVE Scan(_, _, _)
Scan(m, i, best) ==
    IF i > Len(m) THEN best
    ELSE Scan(m, i + 1, IF m[i].n > m[best].n THEN i ELSE best)

max_key_last(m) ==
    IF m = <<>>
    THEN [raised |-> "ValueError", key |-> ""]
    ELSE [raised |-> "", key |-> m[ScanLast(m, 2, 1)].key]

max_key(m) ==
    IF m = <<>>
    THEN [raised |-> "ValueError", key |-> ""]
    ELSE [raised |-> "", key |-> m[Scan(m, 2, 1)].key]

----------------------------------------------------------------------------
(* The script under Streamlit *)

NoCall == [fn |-> "none", qc |-> <<>>, qubit |-> 0, kind |-> "None",
           syndrome |-> "", counts |-> <<>>]

\* what a rerun of the script starts from: nothing of the previous run
Fresh ==
    /\ qc' = <<>>
    /\ table' = SYNDROME_TABLE
    /\ counts' = <<>>
    /\ syndrome' = ""
    /\ corrected' = <<>>
    /\ message' = <<>>
    /\ submitted' = <<>>
    /\ executions' = 0

Init ==
    /\ pc = "idle"
    /\ error_type = "None"
    /\ error_qubit = 0
    /\ shots = DefaultShots
    /\ qc = <<>>
    /\ table = SYNDROME_TABLE
    /\ counts = <<>>
    /\ syndrome = ""
    /\ corrected = <<>>
    /\ message = <<>>
    /\ submitted = <<>>
    /\ executions = 0
    /\ runs = 0
    /\ call = NoCall
    /\ raised = ""

Resting == pc \in {"idle", "done"}

\* a widget change reruns the script with run = False
SelectErrorType ==
    /\ Resting
    /\ \E k \in ErrorTypes : error_type' = k
    /\ Fresh
    /\ pc' = "idle"
    /\ UNCHANGED <<error_qubit, shots, runs, call, raised>>

SelectErrorQubit ==
    /\ Resting
    /\ \E q \in ErrorQubits : error_qubit' = q
    /\ Fresh
    /\ pc' = "idle"
    /\ UNCHANGED <<error_type, shots, runs, call, raised>>

SlideShots ==
    /\ Resting
    /\ \E n \in ShotsChoices : shots' = n
    /\ Fresh
    /\ pc' = "idle"
    /\ UNCHANGED <<error_type, error_qubit, runs, call, raised>>

\* the button: the script reruns with run = True and builds the encoder
PressRun ==
    /\ Resting
    /\ runs < MaxRuns
    /\ runs' = runs + 1
    /\ qc' = steane_encode
    /\ table' = SYNDROME_TABLE
    /\ counts' = <<>>
    /\ syndrome' = ""
    /\ corrected' = <<>>
    /\ message' = <<>>
    /\ submitted' = <<>>
    /\ executions' = 0
    /\ pc' = "encoded"
    /\ UNCHANGED <<error_type, error_qubit, shots, call, raised>>

Inject ==
    /\ pc = "encoded"
    /\ qc' = IF error_type # "None" THEN inject_error(qc, error_qubit, error_type) ELSE qc
    /\ pc' = "injected"
    /\ UNCHANGED <<error_type, error_qubit, shots, table, counts, syndrome, corrected,
                   message, submitted, executions, runs, call, raised>>

Extract ==
    /\ pc = "injected"
    /\ qc' = syndrome_measurement(qc)
    /\ pc' = "extracted"
    /\ UNCHANGED <<error_type, error_qubit, shots, table, counts, syndrome, corrected,
                   message, submitted, executions, runs, call, raised>>

Execute ==
    /\ pc = "extracted"
    /\ \E m \in Backend(qc, shots) :
          /\ counts' = m
          /\ syndrome' = max_key(m).key
    /\ submitted' = qc
    /\ executions' = executions + 1
    /\ pc' = "executed"
    /\ UNCHANGED <<error_type, error_qubit, shots, qc, table, corrected, message,
                   runs, call, raised>>

Correct ==
    /\ pc = "executed"
    /\ LET r == IF error_type # "None"
                THEN apply_correction(qc, syndrome, error_type)
                ELSE [qc |-> qc, ret |-> <<>>]
       IN  /\ qc' = r.qc
           /\ corrected' = r.ret
           /\ message' = IF r.ret # <<>>
                         THEN <<"Error corrected on qubit", r.ret[1]>>
                         ELSE <<"No error detected">>
    /\ pc' = "corrected"
    /\ UNCHANGED <<error_type, error_qubit, shots, table, counts, syndrome,
                   submitted, executions, runs, call, raised>>

\* show_circuit, show_bloch (on a copy), bar_chart: nothing is written
Render ==
    /\ pc = "corrected"
    /\ pc' = "done"
    /\ UNCHANGED <<error_type, error_qubit, shots, qc, table, counts, syndrome, corrected,
                   message, submitted, executions, runs, call, raised>>

Next ==
    \/ SelectErrorType
    \/ SelectErrorQubit
    \/ SlideShots
    \/ PressRun
    \/ Inject
    \/ Extract
    \/ Execute
    \/ Correct
    \/ Render

Spec == Init /\ [][Next]_vars

----------------------------------------------------------------------------
(* The functions called on their own *)

FnCircuits == {QuantumCircuit, steane_encode}
FnQubits == 0 .. (NumQubits - 1)
FnKinds == ErrorTypes \cup {"H"}
WellFormed == { BitStrings[i] : i \in 1 .. Len(BitStrings) }
FnSyndromes == WellFormed \cup {"", "01", "0000", "0a1", "2"}
FnKeys == {"000", "011", "101", "110"}

\* frequency maps: up to MaxEntries distinct keys in some order, counts 1..MaxCount
CountMaps ==
    UNION { { m \in [1 .. len -> [key : FnKeys, n : 1 .. MaxCount]] :
                \A i, j \in 1 .. len : i # j => m[i].key # m[j].key }
          : len \in 0 .. MaxEntries }

FnCalls ==
    { [NoCall EXCEPT !.fn = "inject_error", !.qc = c, !.qubit = q, !.kind = k] :
        c \in FnCircuits, q \in FnQubits, k \in FnKinds }
    \cup
    { [NoCall EXCEPT !.fn = "apply_correction", !.qc = c, !.syndrome = s, !.kind = k] :
        c \in FnCircuits, s \in FnSyndromes, k \in FnKinds }
    \cup
    { [NoCall EXCEPT !.fn = "max", !.counts = m] : m \in CountMaps }

FnInit ==
    /\ pc = "call"
    /\ call \in FnCalls
    /\ error_type = "None"
    /\ error_qubit = 0
    /\ shots = DefaultShots
    /\ qc = call.qc
    /\ table = SYNDROME_TABLE
    /\ counts = call.counts
    /\ syndrome = ""
    /\ corrected = <<>>
    /\ message = <<>>
    /\ submitted = <<>>
    /\ executions = 0
    /\ runs = 0
    /\ raised = ""

CallInjectError ==
    /\ pc = "call"
    /\ call.fn = "inject_error"
    /\ qc' = inject_error(call.qc, call.qubit, call.kind)
    /\ pc' = "returned"
    /\ UNCHANGED <<error_type, error_qubit, shots, table, counts, syndrome, corrected,
                   message, submitted, executions, runs, call, raised>>

CallApplyCorrection ==
    /\ pc = "call"
    /\ call.fn = "apply_correction"
    /\ LET r == apply_correction(call.qc, call.syndrome, call.kind)
       IN  /\ qc' = r.qc
           /\ corrected' = r.ret
    /\ pc' = "returned"
    /\ UNCHANGED <<error_type, error_qubit, shots, table, counts, syndrome,
                   message, submitted, executions, runs, call, raised>>

CallMax ==
    /\ pc = "call"
    /\ call.fn = "max"
    /\ LET r == max_key(call.counts)
       IN  /\ syndrome' = r.key
           /\ raised' = r.raised
    /\ pc' = "returned"
    /\ UNCHANGED <<error_type, error_qubit, shots, qc, table, counts, corrected,
                   message, submitted, executions, runs, call>>

FnNext ==
    \/ CallInjectError
    \/ CallApplyCorrection
    \/ CallMax

FnSpec == FnInit /\ [][FnNext]_vars

----------------------------------------------------------------------------
(* Vocabulary of the properties *)

AfterExecution == pc \in {"executed", "corrected", "done"}
AfterCorrection == pc \in {"corrected", "done"}

PauliName(k) == CASE k = "X" -> "x" [] k = "Z" -> "z" [] k = "Y" -> "y"

IsPauli(g) == g.name \in {"x", "y", "z"} /\ Len(g.qubits) = 1 /\ g.clbits = <<>>

ExpectedEncoder ==
    << Gate("h", <<0>>, <<>>),
       Gate("cx", <<0, 1>>, <<>>), Gate("cx", <<0, 2>>, <<>>),
       Gate("cx", <<1, 3>>, <<>>), Gate("cx", <<2, 3>>, <<>>),
       Gate("cx", <<1, 4>>, <<>>), Gate("cx", <<2, 5>>, <<>>),
       Gate("cx", <<3, 6>>, <<>>) >>

ExpectedInjection ==
    IF error_type = "None" THEN <<>>
    ELSE << Gate(PauliName(error_type), <<error_qubit>>, <<>>) >>

ExpectedExtraction ==
    << Gate("cx", <<0, 7>>, <<>>), Gate("cx", <<1, 7>>, <<>>), Gate("cx", <<3, 7>>, <<>>),
       Gate("cx", <<0, 8>>, <<>>), Gate("cx", <<2, 8>>, <<>>), Gate("cx", <<3, 8>>, <<>>),
       Gate("cx", <<1, 9>>, <<>>), Gate("cx", <<2, 9>>, <<>>), Gate("cx", <<3, 9>>, <<>>),
       Gate("measure", <<7>>, <<0>>), Gate("measure", <<8>>, <<1>>),
       Gate("measure", <<9>>, <<2>>) >>

\* the state of the seven data qubits: the branches without ancillas
DataState(st) ==
    { [bits |-> [q \in ErrorQubits |-> st[i].bits[q]], phase |-> st[i].phase] :
        i \in 1 .. Len(st) }

SameUpToGlobalPhase(A, B) ==
    \E g \in 0 .. 3 : { [b EXCEPT !.phase = (b.phase + g) % 4] : b \in A } = B

NonzeroSyndromes == WellFormed \ {"000"}

----------------------------------------------------------------------------
(* C1.  For every data qubit q and every kind X, Z, Y: after encode,       *)
(* inject(q, kind), extraction and a noiseless execution, every shot gives *)
(* the same syndrome s, and SYNDROME_TABLE[s] = q.                         *)
(* Stated as the claim states it; the code does not satisfy it.            *)
C1_SyndromeLocatesInjectedQubit ==
    (AfterExecution /\ error_type # "None") =>
        /\ Len(counts) = 1
        /\ syndrome = counts[1].key
        /\ syndrome \in DOMAIN table
        /\ table[syndrome] = error_qubit

(* C2.  Round trip: for every data qubit and every kind X, Z, Y, after the *)
(* correction step the seven data qubits are, up to a global phase, in the *)
(* state steane_encode produces.                                           *)
(* Stated as the claim states it; the code does not satisfy it.            *)
C2_CorrectionRestoresEncodedState ==
    (AfterCorrection /\ error_type # "None") =>
        SameUpToGlobalPhase(DataState(Simulate(qc)), DataState(Simulate(steane_encode)))

(* C3.  With error type None, every shot of the noiseless execution reads  *)
(* 000: all three classical bits are 0 on every branch, the outcome map    *)
(* has the single key "000" holding all the shots, and "000" is selected.  *)
C3_NoErrorGivesZeroSyndrome ==
    (AfterExecution /\ error_type = "None") =>
        /\ \A i \in 1 .. Len(Simulate(submitted)) :
              \A b \in 0 .. (NumClbits - 1) : Simulate(submitted)[i].cl[b] = 0
        /\ counts = << [key |-> "000", n |-> shots] >>
        /\ syndrome = "000"

C3_Witness ==
    /\ pc = "executed"
    /\ error_type = "None"
    /\ Len(counts) = 1
    /\ Len(Simulate(submitted)) = 2

(* C4.  SYNDROME_TABLE is a bijection from the seven nonzero 3-bit strings *)
(* onto the qubits 0..6: "000" is no key, no value repeats, no value is an *)
(* ancilla, so that no gate appended after execution touches qubits 7..9;  *)
(* and the table is the same in every state of every run.                  *)
C4_TableIsFixedBijection ==
    /\ DOMAIN table = NonzeroSyndromes
    /\ "000" \notin DOMAIN table
    /\ { table[k] : k \in DOMAIN table } = ErrorQubits
    /\ \A k1, k2 \in DOMAIN table : table[k1] = table[k2] => k1 = k2
    /\ table = SYNDROME_TABLE
    /\ corrected # <<>> => corrected[1] \in ErrorQubits
    /\ AfterExecution =>
          \A i \in (Len(submitted) + 1) .. Len(qc) :
              \A j \in 1 .. Len(qc[i].qubits) : qc[i].qubits[j] \in ErrorQubits

C4_Witness ==
    /\ pc = "done"
    /\ runs = MaxRuns
    /\ corrected # <<>>
    /\ Len(qc) = Len(submitted) + 1

(* C5, as the claim states it: decoding a string that is not three         *)
(* characters of 0/1 fails with an error and is never answered "none".     *)
C5_MalformedSyndromeRaises ==
    (pc = "returned" /\ call.fn = "apply_correction" /\ call.syndrome \notin WellFormed) =>
        raised # ""

(* C5, amended: apply_correction raises nothing.  It returns the table's   *)
(* qubit for each of the seven nonzero 3-bit strings, and None for every   *)
(* other string: for "000" and for a malformed string alike; in the None   *)
(* case the circuit is left as it was.                                     *)
C5_DecodeNeverRaises ==
    (pc = "returned" /\ call.fn = "apply_correction") =>
        /\ raised = ""
        /\ call.syndrome \in NonzeroSyndromes =>
              \E i \in 2 .. Len(BitStrings) :
                  BitStrings[i] = call.syndrome /\ corrected = <<i - 2>>
        /\ call.syndrome \notin NonzeroSyndromes =>
              corrected = <<>> /\ qc = call.qc

C5_Witness ==
    /\ pc = "returned"
    /\ call.fn = "apply_correction"
    /\ call.syndrome = "0000"
    /\ call.kind = "X"
    /\ corrected = <<>>

(* C6, as the claim states it: inject_error on an index outside 0..6 is    *)
(* rejected with an error and leaves the circuit unchanged.                *)
C6_AncillaInjectionRejected ==
    (pc = "returned" /\ call.fn = "inject_error" /\ call.qubit \notin ErrorQubits) =>
        /\ raised # ""
        /\ qc = call.qc

(* C6, amended: inject_error checks nothing.  For every index of the       *)
(* register, the ancillas 7..9 included, and kind X, Z or Y it appends     *)
(* exactly that gate on exactly that qubit and raises nothing; for any     *)
(* other kind it leaves the circuit unchanged.  (The range 0..6 is kept by *)
(* the selectbox alone.)                                                   *)
C6_InjectAcceptsAnyRegisterIndex ==
    (pc = "returned" /\ call.fn = "inject_error") =>
        /\ raised = ""
        /\ call.kind \in {"X", "Z", "Y"} =>
              qc = Append(call.qc, Gate(PauliName(call.kind), <<call.qubit>>, <<>>))
        /\ call.kind \notin {"X", "Z", "Y"} => qc = call.qc

C6_Witness ==
    /\ pc = "returned"
    /\ call.fn = "inject_error"
    /\ call.qubit = NumQubits - 1
    /\ call.kind = "X"
    /\ qc # call.qc
    /\ qc[Len(qc)].qubits = <<NumQubits - 1>>

(* C7.  The correction step appends a gate only when the kind is not None  *)
(* and the selected syndrome is a key of the table.  With kind None or     *)
(* syndrome "000" the circuit stays the executed circuit, no qubit is      *)
(* reported and the message is "No error detected".  Whenever a qubit is   *)
(* reported, exactly one gate of the injected kind was appended on it.     *)
C7_CorrectionFrame ==
    /\ pc = "executed" => qc = submitted /\ corrected = <<>>
    /\ AfterCorrection =>
          /\ (error_type = "None" \/ syndrome = "000") =>
                /\ qc = submitted
                /\ corrected = <<>>
                /\ message = <<"No error detected">>
          /\ qc # submitted => error_type # "None" /\ syndrome \in DOMAIN table
          /\ corrected = <<>> => qc = submitted /\ message = <<"No error detected">>
          /\ corrected # <<>> =>
                /\ error_type # "None"
                /\ syndrome \in DOMAIN table
                /\ qc = Append(submitted,
                               Gate(PauliName(error_type), <<corrected[1]>>, <<>>))
                /\ message = <<"Error corrected on qubit", corrected[1]>>

C7_Witness ==
    /\ pc = "done"
    /\ error_type = "Y"
    /\ corrected # <<>>
    /\ qc[Len(qc)] = Gate("y", <<corrected[1]>>, <<>>)

(* C8.  Selection returns a key of the map whose count no other key's      *)
(* count exceeds; among keys sharing the largest count, the first in the   *)
(* map's order; on the empty map it raises and returns no syndrome.        *)
C8_SelectFirstMaximum ==
    (pc = "returned" /\ call.fn = "max") =>
        /\ call.counts = <<>> => raised # "" /\ syndrome = ""
        /\ call.counts # <<>> =>
              /\ raised = ""
              /\ \E i \in 1 .. Len(call.counts) :
                    /\ call.counts[i].key = syndrome
                    /\ \A j \in 1 .. Len(call.counts) : call.counts[j].n <= call.counts[i].n
                    /\ \A j \in 1 .. (i - 1) : call.counts[j].n < call.counts[i].n

C8_Witness ==
    /\ pc = "returned"
    /\ call.fn = "max"
    /\ Len(call.counts) = 3
    /\ call.counts[1].n < call.counts[2].n
    /\ call.counts[2].n = call.counts[3].n
    /\ syndrome = call.counts[2].key

\* what extraction must do to the branches, and what it may append
ParityExtracted(before, after) ==
    LET pre == Simulate(before)
        post == Simulate(after)
        added == SubSeq(after, Len(before) + 1, Len(after))
    IN  /\ Len(post) = Len(pre)
        /\ SubSeq(after, 1, Len(before)) = before
        /\ \A i \in 1 .. Len(pre) :
              /\ post[i].cl[0] = Xor(Xor(pre[i].bits[0], pre[i].bits[1]), pre[i].bits[3])
              /\ post[i].cl[1] = Xor(Xor(pre[i].bits[0], pre[i].bits[2]), pre[i].bits[3])
              /\ post[i].cl[2] = Xor(Xor(pre[i].bits[1], pre[i].bits[2]), pre[i].bits[3])
              /\ \A q \in ErrorQubits : post[i].bits[q] = pre[i].bits[q]
        /\ Cardinality({ i \in 1 .. Len(added) : added[i].name = "cx" }) = 9
        /\ \A i \in 1 .. Len(added) :
              added[i].name = "cx" =>
                  added[i].qubits[1] \in ErrorQubits /\ added[i].qubits[2] \notin ErrorQubits

(* C9.  Extraction, whatever was injected: on every branch classical bit 0 *)
(* is the XOR of data qubits 0,1,3, bit 1 the XOR of 0,2,3, bit 2 the XOR  *)
(* of 1,2,3, as they were when extraction started; the nine CNOTs have     *)
(* data controls and ancilla targets, and the data qubits' values stay.    *)
C9_ExtractionComputesParities ==
    [][(pc = "injected" /\ pc' = "extracted") => ParityExtracted(qc, qc')]_vars

C9_Witness ==
    /\ pc = "extracted"
    /\ error_type = "Y"
    /\ error_qubit = 3
    /\ \E i \in 1 .. Len(Simulate(qc)) : Simulate(qc)[i].cl[0] = 1

(* C10.  A run is one ordered pipeline on a fresh circuit: H(0) and the    *)
(* seven CNOTs, then at most one error gate, then the nine parity CNOTs    *)
(* and three measurements, then exactly one execution, then at most one    *)
(* correction gate.  The error gate precedes every parity CNOT, and a new  *)
(* run starts with nothing left of the one before.                         *)
C10_OrderedPipeline ==
    LET built == ExpectedEncoder \o ExpectedInjection \o ExpectedExtraction
        nothingYet == /\ counts = <<>> /\ syndrome = "" /\ corrected = <<>>
                      /\ message = <<>> /\ submitted = <<>> /\ executions = 0
    IN  /\ pc = "idle" => qc = <<>> /\ nothingYet
        /\ pc = "encoded" => qc = ExpectedEncoder /\ nothingYet
        /\ pc = "injected" => qc = ExpectedEncoder \o ExpectedInjection /\ nothingYet
        /\ pc = "extracted" => qc = built /\ nothingYet
        /\ AfterExecution =>
              /\ executions = 1
              /\ submitted = built
              /\ Len(counts) >= 1
              /\ \/ qc = submitted
                 \/ /\ AfterCorrection
                    /\ Len(qc) = Len(submitted) + 1
                    /\ SubSeq(qc, 1, Len(submitted)) = submitted
                    /\ IsPauli(qc[Len(qc)])
        /\ \A i, j \in 1 .. Len(qc) :
              ( /\ IsPauli(qc[i])
                /\ AfterExecution => i <= Len(submitted)
                /\ qc[j].name = "cx"
                /\ qc[j].qubits[2] \notin ErrorQubits ) => i < j

C10_Witness ==
    /\ pc = "done"
    /\ runs = MaxRuns
    /\ error_type = "X"
    /\ Len(qc) = Len(ExpectedEncoder) + 1 + Len(ExpectedExtraction) + 1

====
